---- MODULE Spec2Model ----
(***************************************************************************)
(* COBS (Consistent Overhead Byte Stuffing) codec of src/src/cobs.c:       *)
(* cobsEncode, cobsDecode and maxCobsEncodedLength.                        *)
(*                                                                         *)
(* Each call is a small state machine: a call action (argument check and   *)
(* the declarations before the loop), one action per loop iteration, and   *)
(* an action for what follows the loop.  Pointers are offsets from the     *)
(* start of the buffer they point into (0-based, as in the C code).        *)
(***************************************************************************)
EXTENDS Integers, Sequences, FiniteSets, TLC

VARIABLES
    pc,         \* "idle", "enc_loop", "enc_done", "dec_loop", "dec_done"
    \* ---- cobsEncode
    data,       \* the bytes at `data` (a sequence; data[i+1] is C's data[i])
    dataNull,   \* data == NULL
    bufNull,    \* buffer == NULL
    length,     \* the `length` parameter, counted down by the loop
    byte,       \* offset of `byte` from `data`
    encode,     \* offset of `encode` from `buffer`
    codep,      \* offset of `codep` from `buffer`
    code,       \* uint8_t code
    buffer,     \* the caller's output buffer, [0..cap-1 -> byte or PreCall]
    encRet,     \* the value cobsEncode returned
    encReads,   \* number of input bytes cobsEncode has dereferenced
    encHi,      \* highest offset cobsEncode has stored to (-1: none)
    \* ---- cobsDecode
    mode,       \* what cobsDecode was handed: "none", "exact", "delimited", "raw"
    frame,      \* the bytes at cobsDecode's `data`
    dlen,       \* cobsDecode's `length`
    dDataNull,  \* cobsDecode's data == NULL
    dBufNull,   \* cobsDecode's buffer == NULL
    dbyte,      \* offset of cobsDecode's `byte` from its `data`
    decode,     \* offset of `decode` from cobsDecode's `buffer`
    dcode,      \* uint8_t code of cobsDecode
    block,      \* uint8_t block
    dbuffer,    \* cobsDecode's output buffer
    decRet,     \* the value cobsDecode returned
    decIters,   \* loop iterations cobsDecode has run
    decHiRead,  \* highest input offset cobsDecode has read (-1: none)
    decHi       \* highest offset cobsDecode has stored to (-1: none)

encVars == <<data, dataNull, bufNull, length, byte, encode, codep, code,
             buffer, encRet, encReads, encHi>>
decVars == <<mode, frame, dlen, dDataNull, dBufNull, dbyte, decode, dcode,
             block, dbuffer, decRet, decIters, decHiRead, decHi>>
vars == <<pc, encVars, decVars>>

----------------------------------------------------------------------------
(* Bounds of the checked instance *)

\* longest input of the exhaustive (short) family
MaxShort == 4
\* number of full 254-byte runs in the long inputs
MaxBlocks == 2
\* longest arbitrary (possibly malformed) frame handed to cobsDecode
MaxRaw == 4
\* bytes allocated past the size the contract asks for, so that an overrun
\* has somewhere to land
Slack == 2

----------------------------------------------------------------------------
(* Program constants *)

\* 0xff: the code of a maximal block
MaxCode == 255
\* wrap of uint8_t arithmetic
Uint8 == 256
\* divisor of maxCobsEncodedLength
RunLen == 254

\* The content of a buffer cell no call has stored to.  It is outside the
\* byte range, so a store of any byte (0 included) is told apart from it.
PreCall == 0 - 1

----------------------------------------------------------------------------
(* Helpers *)

Max(a, b) == IF a >= b THEN a ELSE b
Min(a, b) == IF a <= b THEN a ELSE b

\* buf with v stored at offset i
Store(buf, i, v) == [buf EXCEPT ![i] = v]

\* n "untouched" cells at offsets 0..n-1
Fresh(n) == [i \in 0..(n - 1) |-> PreCall]

\* the first n cells of a buffer as a sequence
Prefix(buf, n) == [i \in 1..n |-> buf[i - 1]]

\* variant: the code byte of the first block is not counted
maxCobsEncodedLengthNoCode(data_length) ==
    data_length + data_length \div RunLen

\* variant: one overhead byte per 255 input bytes
maxCobsEncodedLengthPer255(data_length) ==
    data_length + data_length \div MaxCode + 1

\* size_t maxCobsEncodedLength(size_t data_length)
maxCobsEncodedLength(data_length) ==
    data_length + data_length \div RunLen + 1

----------------------------------------------------------------------------
(* Inputs *)

SeqsUpTo(S, n) == UNION {[1..k -> S] : k \in 0..n}

\* n non-zero bytes, no two neighbours equal
Run(n) == [i \in 1..n |-> ((i - 1) % MaxCode) + 1]

DataVals == {0, 1, 170}
ShortInputs == SeqsUpTo(DataVals, MaxShort)

Edges == {<<>>, <<0>>, <<7>>}
Around == {0 - 1, 0, 1}
RunLens == {RunLen * k + e : k \in 1..MaxBlocks, e \in Around}
LongInputs == {p \o Run(n) \o s : p \in Edges, n \in RunLens, s \in Edges}

Inputs == ShortInputs \cup LongInputs

\* what may follow the delimiter on the wire
Tails == {<<>>, <<255>>}

RawVals == {0, 1, 2, 3, 255}
ShortFrames == SeqsUpTo(RawVals, MaxRaw)
LongFrames == {<<c>> \o Run(n) \o s :
                 c \in {MaxCode - 1, MaxCode}, n \in {RunLen - 1, RunLen},
                 s \in {<<>>, <<0>>, <<2>>, <<2, 9, 9>>}}
RawFrames == ShortFrames \cup LongFrames

----------------------------------------------------------------------------
Init ==
    /\ pc = "idle"
    /\ data = <<>> /\ dataNull = FALSE /\ bufNull = FALSE
    /\ length = 0 /\ byte = 0 /\ encode = 0 /\ codep = 0 /\ code = 0
    /\ buffer = <<>> /\ encRet = 0 /\ encReads = 0 /\ encHi = 0 - 1
    /\ mode = "none" /\ frame = <<>> /\ dlen = 0
    /\ dDataNull = FALSE /\ dBufNull = FALSE
    /\ dbyte = 0 /\ decode = 0 /\ dcode = 0 /\ block = 0
    /\ dbuffer = <<>> /\ decRet = 0 /\ decIters = 0
    /\ decHiRead = 0 - 1 /\ decHi = 0 - 1

----------------------------------------------------------------------------
(* cobsEncode *)

\* if ((data == NULL) || (buffer == NULL))
EncNullArgs(dn, bn) == dn \/ bn

\* variant: every byte is copied
CopiesAnyByte(b) == TRUE

\* if (*byte)
CopiesByte(b) == b # 0

\* variant: a full block is not restarted
BlockClosedOnZero(b, c) == b = 0

\* variant: a block is restarted one byte early
BlockClosedEarly(b, c) == b = 0 \/ c = MaxCode - 1

\* if (!*byte || code == 0xff)
BlockClosed(b, c) == b = 0 \/ c = MaxCode

\* variant: a code slot is reserved after every closed block
OpensBlockAlways(b, len) == TRUE

\* variant: a code slot is reserved only after a zero
OpensBlockOnZero(b, len) == b = 0

\* if (!*byte || length)
OpensBlock(b, len) == b = 0 \/ len # 0

\* Entry of cobsEncode(d, Len(d), buffer): the NULL check, then the
\* declarations before the loop.
cobsEncodeCall(d, dn, bn) ==
    /\ pc = "idle"
    /\ data' = d /\ dataNull' = dn /\ bufNull' = bn
    /\ buffer' = Fresh(maxCobsEncodedLength(Len(d)) + Slack)
    /\ length' = Len(d)
    /\ IF EncNullArgs(dn, bn)
       THEN /\ pc' = "enc_done"
            /\ encRet' = 0
            /\ UNCHANGED <<byte, encode, codep, code>>
       ELSE /\ pc' = "enc_loop"
            /\ codep' = 0          \* codep = encode++
            /\ encode' = 1
            /\ code' = 1
            /\ byte' = 0
            /\ UNCHANGED encRet
    /\ UNCHANGED <<encReads, encHi, decVars>>

\* One iteration of the for loop: the test `length--` succeeded.
cobsEncodeStep ==
    /\ pc = "enc_loop"
    /\ length # 0
    /\ LET b == data[byte + 1]
           len1 == length - 1
           copy == CopiesByte(b)
           buf1 == IF copy THEN Store(buffer, encode, b) ELSE buffer
           enc1 == IF copy THEN encode + 1 ELSE encode
           code1 == IF copy THEN (code + 1) % Uint8 ELSE code
           close == BlockClosed(b, code1)
           open == close /\ OpensBlock(b, len1)
       IN  /\ buffer' = IF close THEN Store(buf1, codep, code1) ELSE buf1
           /\ code' = IF close THEN 1 ELSE code1
           /\ codep' = IF close THEN enc1 ELSE codep
           /\ encode' = IF open THEN enc1 + 1 ELSE enc1
           /\ length' = len1
           /\ encHi' = Max(encHi, Max(IF copy THEN encode ELSE 0 - 1,
                                      IF close THEN codep ELSE 0 - 1))
    /\ byte' = byte + 1
    /\ encReads' = encReads + 1
    /\ UNCHANGED <<pc, data, dataNull, bufNull, encRet, decVars>>

\* The test `length--` failed: the final code is written and the length
\* returned.  (length wraps to SIZE_MAX here and is not read again.)
cobsEncodeExit ==
    /\ pc = "enc_loop"
    /\ length = 0
    /\ buffer' = Store(buffer, codep, code)
    /\ encHi' = Max(encHi, codep)
    /\ encRet' = encode
    /\ pc' = "enc_done"
    /\ UNCHANGED <<data, dataNull, bufNull, length, byte, encode, codep, code,
                   encReads, decVars>>

----------------------------------------------------------------------------
(* cobsDecode *)

\* variant: && for ||
DecNullBoth(dn, bn) == dn /\ bn

\* if((data==NULL) || (buffer==NULL))
DecNullArgs(dn, bn) == dn \/ bn

\* variant: a zero is written at every block boundary
EmitsZeroAlways(c) == TRUE

\* if (code != 0xff)
EmitsZero(c) == c # MaxCode

\* if (code == 0x00)
IsDelimiter(c) == c = 0

\* Entry of cobsDecode(f, n, buffer) with an output buffer of n + Slack bytes.
cobsDecodeCall(m, f, n, dn, bn) ==
    /\ mode' = m /\ frame' = f /\ dlen' = n
    /\ dDataNull' = dn /\ dBufNull' = bn
    /\ dbuffer' = Fresh(n + Slack)
    /\ IF DecNullArgs(dn, bn)
       THEN /\ pc' = "dec_done"
            /\ decRet' = 0
            /\ UNCHANGED <<dbyte, decode, dcode, block>>
       ELSE /\ pc' = "dec_loop"
            /\ dbyte' = 0
            /\ decode' = 0
            /\ dcode' = MaxCode
            /\ block' = 0
            /\ UNCHANGED decRet
    /\ UNCHANGED <<decIters, decHiRead, decHi, encVars>>

\* One iteration of the for loop: byte < data + length.
cobsDecodeStep ==
    /\ pc = "dec_loop"
    /\ dbyte < dlen
    /\ LET b == frame[dbyte + 1]
       IN  IF block # 0
           THEN \* *decode++ = *byte++;  then --block
                /\ dbuffer' = Store(dbuffer, decode, b)
                /\ decHi' = Max(decHi, decode)
                /\ decode' = decode + 1
                /\ block' = (block - 1) % Uint8
                /\ UNCHANGED <<dcode, decRet, pc>>
           ELSE LET zero == EmitsZero(dcode)
                    dec1 == IF zero THEN decode + 1 ELSE decode
                IN  /\ dbuffer' = IF zero THEN Store(dbuffer, decode, 0)
                                          ELSE dbuffer
                    /\ decHi' = IF zero THEN Max(decHi, decode) ELSE decHi
                    /\ decode' = dec1
                    /\ dcode' = b
                    /\ IF IsDelimiter(b)
                       THEN \* break; return decode - buffer
                            /\ block' = b
                            /\ decRet' = dec1
                            /\ pc' = "dec_done"
                       ELSE /\ block' = (b - 1) % Uint8
                            /\ UNCHANGED <<decRet, pc>>
    /\ decHiRead' = Max(decHiRead, dbyte)
    /\ dbyte' = dbyte + 1
    /\ decIters' = decIters + 1
    /\ UNCHANGED <<mode, frame, dlen, dDataNull, dBufNull, encVars>>

\* The loop test failed: return decode - buffer.
cobsDecodeExit ==
    /\ pc = "dec_loop"
    /\ dbyte >= dlen
    /\ decRet' = decode
    /\ pc' = "dec_done"
    /\ UNCHANGED <<mode, frame, dlen, dDataNull, dBufNull, dbyte, decode,
                   dcode, block, dbuffer, decIters, decHiRead, decHi, encVars>>

----------------------------------------------------------------------------
(* The calls that are made *)

\* the encoder's output, as the caller sees it
Encoded == Prefix(buffer, encRet)

Encode ==
    \E d \in Inputs, dn \in BOOLEAN, bn \in BOOLEAN : cobsEncodeCall(d, dn, bn)

\* cobsDecode on what cobsEncode produced, with the length it returned
DecodeEncoded ==
    /\ pc = "enc_done"
    /\ ~ EncNullArgs(dataNull, bufNull)
    /\ cobsDecodeCall("exact", Encoded, encRet, FALSE, FALSE)

\* cobsDecode on the frame as it is on the wire: the encoder's output, the
\* delimiter, and whatever follows
DecodeDelimited ==
    /\ pc = "enc_done"
    /\ ~ EncNullArgs(dataNull, bufNull)
    /\ \E t \in Tails :
          cobsDecodeCall("delimited", Encoded \o <<0>> \o t,
                         encRet + 1 + Len(t), FALSE, FALSE)

\* cobsDecode on arbitrary bytes
DecodeRaw ==
    /\ pc = "idle"
    /\ \E f \in RawFrames, dn \in BOOLEAN, bn \in BOOLEAN :
          cobsDecodeCall("raw", f, Len(f), dn, bn)

Next ==
    \/ Encode
    \/ cobsEncodeStep
    \/ cobsEncodeExit
    \/ DecodeEncoded
    \/ DecodeDelimited
    \/ DecodeRaw
    \/ cobsDecodeStep
    \/ cobsDecodeExit

Spec == Init /\ [][Next]_vars

----------------------------------------------------------------------------
(* Properties *)

encOk == pc \in {"enc_done", "dec_loop", "dec_done"}
            /\ mode # "raw" /\ ~ (dataNull \/ bufNull)
encReturned == pc = "enc_done" /\ ~ (dataNull \/ bufNull)
decReturned == pc = "dec_done" /\ ~ (dDataNull \/ dBufNull)

\* the offsets of a buffer that have been stored to
Stored(buf) == {i \in DOMAIN buf : buf[i] # PreCall}

\* the first n cells of cobsDecode's output equal the sequence d, and no
\* other cell was stored to
Holds(buf, d) == /\ \A i \in 1..Len(d) : buf[i - 1] = d[i]
                 /\ Stored(buf) = 0..(Len(d) - 1)

AllNonZero(d) == \A i \in 1..Len(d) : d[i] # 0
HasZero(d) == \E i \in 1..Len(d) : d[i] = 0

\* C1: decoding the encoder's output, with the length the encoder returned,
\* writes exactly the bytes of the original input and returns its length.
RoundTrip ==
    (decReturned /\ mode = "exact") =>
        /\ decRet = Len(data)
        /\ Holds(dbuffer, data)

RoundTripWitness ==
    /\ decReturned /\ mode = "exact"
    /\ Len(data) > 2 * RunLen
    /\ HasZero(data)
    /\ decRet = Len(data)

\* C2: none of the first encRet bytes of the output is zero; each is a
\* byte in 1..255 (so every code slot below encRet has been filled).
NoZeroByte ==
    encReturned => \A i \in 0..(encRet - 1) : buffer[i] \in 1..MaxCode

NoZeroByteWitness ==
    /\ encReturned
    /\ HasZero(data)
    /\ Len(data) > RunLen
    /\ \E i \in 0..(encRet - 1) : buffer[i] = MaxCode /\ i > 0

\* C3: the length cobsEncode returns is at most
\* maxCobsEncodedLength(length) = length + length / 254 + 1.
BoundCorrect ==
    encReturned =>
        /\ encRet <= maxCobsEncodedLength(Len(data))
        /\ encRet <= Len(data) + Len(data) \div 254 + 1

BoundCorrectWitness ==
    /\ encReturned
    /\ Len(data) > RunLen
    /\ encRet = maxCobsEncodedLength(Len(data))

\* C4: every store of cobsEncode (data copies, code writes on closing a
\* block, the final code write) goes to an offset in
\* 0 .. maxCobsEncodedLength(length) - 1.
EncodeInBounds ==
    /\ encHi <= maxCobsEncodedLength(Len(data)) - 1
    /\ encReturned =>
          Stored(buffer) \subseteq 0..(maxCobsEncodedLength(Len(data)) - 1)

\* the final code write lands on the last byte the contract allows
EncodeInBoundsWitness ==
    /\ encReturned
    /\ Len(data) = RunLen
    /\ encHi = maxCobsEncodedLength(Len(data)) - 1
    /\ encHi = encRet

\* the offset just past the last zero of d (0 when d has none)
AfterLastZero(d) ==
    LET zs == {i \in 1..Len(d) : d[i] = 0}
    IN  IF zs = {} THEN 0 ELSE CHOOSE i \in zs : \A j \in zs : j <= i

\* d ends with a run of non-zero bytes that fills a whole number (>= 1) of
\* maximal blocks
EndsOnFullBlock(d) ==
    LET k == Len(d) - AfterLastZero(d)
    IN  k > 0 /\ k % RunLen = 0

\* C5 (as claimed): cobsDecode on cobsEncode(d), a 0x00 delimiter and any
\* trailing bytes yields exactly d, as decoding cobsEncode(d) alone does.
DelimiterEndsMessage ==
    (decReturned /\ mode = "delimited") =>
        /\ decRet = Len(data)
        /\ Holds(dbuffer, data)

\* C6 (as claimed): the offsets cobsEncode stores to are exactly
\* 0 .. encRet-1; every cell from encRet on keeps its pre-call value.
ReturnsBytesWritten ==
    encReturned => Stored(buffer) = 0..(encRet - 1)

\* C6 (amended): the offsets cobsEncode stores to are 0 .. encRet-1, and
\* also encRet itself, where it writes 0x01, exactly when the input ends
\* with a non-zero run that fills whole maximal blocks; every cell past
\* that keeps its pre-call value.
StoresUpToReturned ==
    encReturned =>
        IF EndsOnFullBlock(data)
        THEN Stored(buffer) = 0..encRet /\ buffer[encRet] = 1
        ELSE Stored(buffer) = 0..(encRet - 1)

StoresUpToReturnedWitness ==
    /\ encReturned
    /\ EndsOnFullBlock(data)
    /\ HasZero(data)
    /\ buffer[encRet] = 1
    /\ buffer[encRet + 1] = PreCall

\* C7: with a null data or buffer pointer, cobsEncode and cobsDecode return
\* 0 without reading any input byte or storing to the output buffer.
NullNoEffect ==
    /\ (dataNull \/ bufNull) =>
          /\ pc = "enc_done" /\ encRet = 0
          /\ encReads = 0 /\ encHi = 0 - 1 /\ Stored(buffer) = {}
    /\ (dDataNull \/ dBufNull) =>
          /\ pc = "dec_done" /\ decRet = 0
          /\ decIters = 0 /\ decHiRead = 0 - 1
          /\ decHi = 0 - 1 /\ Stored(dbuffer) = {}

NullNoEffectWitness ==
    /\ pc = "enc_done"
    /\ dataNull /\ ~ bufNull
    /\ length > RunLen
    /\ encRet = 0

\* The encoding of d written block by block: a code byte N followed by N-1
\* literals; a block ends at a zero of d (elided) or after 254 literals,
\* and after a 254-literal block another follows only if input remains.
RECURSIVE Blocks(_)
Blocks(d) ==
    LET n == Len(d)
        lim == Min(n, MaxCode - 1)
        zs == {i \in 1..lim : d[i] = 0}
        z == CHOOSE i \in zs : \A j \in zs : i <= j
    IN  IF zs # {}
        THEN <<z>> \o SubSeq(d, 1, z - 1) \o Blocks(SubSeq(d, z + 1, n))
        ELSE IF lim = MaxCode - 1
        THEN <<MaxCode>> \o SubSeq(d, 1, lim)
                 \o (IF n = lim THEN <<>> ELSE Blocks(SubSeq(d, lim + 1, n)))
        ELSE <<n + 1>> \o d

\* C8: the bytes cobsEncode produces are the concatenation of blocks
\* described above; encode of the empty input is {0x01}, of {0x00} is
\* {0x01, 0x01}, and of 254 non-zero bytes is {0xFF} followed by them.
ExactOutput ==
    encReturned =>
        /\ Encoded = Blocks(data)
        /\ data = <<>> => Encoded = <<1>>
        /\ data = <<0>> => Encoded = <<1, 1>>
        /\ (Len(data) = 254 /\ AllNonZero(data)) =>
              /\ encRet = 255
              /\ Encoded = <<255>> \o data

ExactOutputWitness ==
    /\ encReturned
    /\ Len(data) = 254 /\ AllNonZero(data)
    /\ encRet = 255 /\ buffer[0] = 255 /\ buffer[254] = data[254]

\* 1 for the lengths at which no input reaches the bound
Shortfall(n) == IF n > 0 /\ n % RunLen = 0 THEN 1 ELSE 0

\* C9 (as claimed): an all-non-zero input, of any length, is encoded to
\* exactly maxCobsEncodedLength(length) bytes.
BoundReached ==
    (encReturned /\ AllNonZero(data)) =>
        encRet = maxCobsEncodedLength(Len(data))

\* C9 (amended): an all-non-zero input is the worst case and is encoded to
\* maxCobsEncodedLength(length) bytes, except when length is a positive
\* multiple of 254: then it is encoded to one byte less, and no input of
\* that length is encoded to more.
BoundReachedOffFullBlocks ==
    encReturned =>
        /\ encRet <= maxCobsEncodedLength(Len(data)) - Shortfall(Len(data))
        /\ AllNonZero(data) =>
              encRet = maxCobsEncodedLength(Len(data)) - Shortfall(Len(data))

BoundReachedOffFullBlocksWitness ==
    /\ encReturned
    /\ AllNonZero(data)
    /\ Len(data) = 2 * RunLen
    /\ encRet = maxCobsEncodedLength(Len(data)) - 1

\* C10: on any input of n bytes, cobsDecode consumes one input byte per
\* loop iteration, reads no offset >= n, stores only to offsets below
\* max(n-1, 0) and returns at most max(n-1, 0).
DecodeNeverExpands ==
    (mode # "none") =>
        /\ dbyte = decIters
        /\ dbyte <= dlen
        /\ decHiRead = dbyte - 1
        /\ decHiRead < dlen
        /\ decHi < Max(dlen - 1, 0)
        /\ decode <= Max(dbyte - 1, 0)
        /\ pc = "dec_done" =>
              /\ decRet <= Max(dlen - 1, 0)
              /\ Stored(dbuffer) \subseteq 0..(Max(dlen - 1, 0) - 1)

\* a truncated maximal block: every byte after the code is copied
DecodeNeverExpandsWitness ==
    /\ decReturned /\ mode = "raw"
    /\ dlen = RunLen /\ frame[1] = MaxCode
    /\ decRet = dlen - 1

====
